---- MODULE Spec2Model ----
(***************************************************************************)
(* Trigger-driven monitoring engine of aperf: record() dispatches to       *)
(* monitor_with_triggers(), which samples eight collectors into bounded    *)
(* history buffers every `interval` seconds, derives the CPU busy percent, *)
(* counts consecutive hits against the parsed threshold and, on a firing,  *)
(* dumps the buffers, runs the Recorder (record() without trigger) and     *)
(* sleeps for the cooldown.                                                *)
(*                                                                         *)
(* Percentages are integers in tenths of a percent (80.0% = 800).  Time is *)
(* an integer number of seconds.  Option<T> is a sequence: <<>> is None,   *)
(* <<x>> is Some(x).                                                       *)
(***************************************************************************)
EXTENDS Integers, Sequences, FiniteSets, TLC

\* ---------------------------------------------------------------- bounds
\* The monitoring loop is unbounded in the code; the model stops sampling
\* after MaxTicks iterations.
MaxTicks == 5

\* ------------------------------------------------------ program constants
NumCollectors == 8
LegacyTriggerTimes == 1
LegacyTriggerCount == 10
DefaultInterval == 1
DefaultPeriod == 10
DefaultTriggerTimes == 1
DefaultTriggerCount == 10
DefaultCooldown == 1200
MinThreshold == 0
MaxThreshold == 1000
FullPercent == 1000

KindName == <<"cpu_utilization", "disk_stats", "vmstat", "meminfo",
              "interrupts", "netstat", "processes", "sysctl">>
Kinds == 1..NumCollectors

\* ----------------------------------------------------------- input sets
Intervals == {0, 1, 2}
Periods == {0, 1, 2, 5}
Cooldowns == {0, 20}
TriggerTimesSet == {0, 1, 2}
TriggerCountSet == {0, 1, 2}
Posts == {10}
CpuUsages == {800}

\* Trigger expressions as the whitespace-separated tokens of the string.
MainExpr == <<"cpu", ">", "80">>
Exprs == { MainExpr,
           <<"CPU", ">", "0">>,
           <<"cpu", ">", "100">>,
           <<"cpu", ">", "101">>,
           <<"cpu", ">", "abc">>,
           <<"cpu", ">=", "80">>,
           <<"cpu>80">>,
           <<"unknownmetric", ">", "5">>,
           <<"cpu", ">", "80", "&&", "mem", ">", "50">> }

\* What get_aggregate_data can hand back: the idle percentages (tenths) of
\* the delta series; only the last element is read.
AggSeries == { <<>>, <<190>>, <<200>>, <<201>>, <<1000, 900>> }

Max(a, b) == IF a > b THEN a ELSE b

\* ------------------------------------------------------- trigger_parser
\* str::to_lowercase on the tokens the model uses.
ToLowercase(tok) ==
  CASE tok = "CPU" -> "cpu"
    [] tok = "Cpu" -> "cpu"
    [] OTHER -> tok

\* str::starts_with("cpu") on the (lowercased) first token.
StartsWithCpu(tok) == tok \in {"cpu", "cpu>80", "cpux"}

\* str::parse::<f64>: <<v>> for a numeric literal (in tenths), <<>> for Err.
ParseF64(tok) ==
  CASE tok = "0" -> <<0>>
    [] tok = "5" -> <<50>>
    [] tok = "50" -> <<500>>
    [] tok = "80" -> <<800>>
    [] tok = "100" -> <<1000>>
    [] tok = "101" -> <<1010>>
    [] OTHER -> <<>>

\* parse_cpu_trigger: <<threshold>> for Ok(CpuTrigger), <<>> for Err.
parse_cpu_trigger(expression) ==
  LET parts == [i \in 1..Len(expression) |-> ToLowercase(expression[i])]
  IN IF Len(parts) >= 1 /\ StartsWithCpu(parts[1])
     THEN IF Len(parts) = 3 /\ parts[1] = "cpu" /\ parts[2] = ">"
          THEN LET threshold == ParseF64(parts[3])
               IN IF threshold = <<>> THEN <<>>
                  ELSE IF threshold[1] < MinThreshold \/ threshold[1] > MaxThreshold
                       THEN <<>>
                       ELSE threshold
          ELSE <<>>
     ELSE <<>>

\* format!("cpu > {}", args.cpu_usage) as tokens (f32 Display of 80.0 is "80").
FormatF32(v) ==
  CASE v = 0 -> "0"
    [] v = 800 -> "80"
    [] v = 1000 -> "100"
    [] OTHER -> "101"

\* ------------------------------------------------------------- structs
\* The Record struct (the fields the monitor and the Recorder read).
MkRecord(rn, i, p, tm, tt, tc, cd, sp) ==
  [run_name |-> rn, interval |-> i, period |-> p, trigger_metrics |-> tm,
   trigger_times |-> tt, trigger_count |-> tc, cooldown |-> cd, skip_prep |-> sp]

DefaultRecord ==
  MkRecord(<<>>, DefaultInterval, DefaultPeriod, <<>>, DefaultTriggerTimes,
           DefaultTriggerCount, DefaultCooldown, FALSE)

\* `aperf record --trigger-metrics ...`
TriggerRecords ==
  { MkRecord(<<>>, i, p, <<MainExpr>>, tt, tc, cd, FALSE) :
      i \in Intervals, p \in Periods, tt \in TriggerTimesSet,
      tc \in TriggerCountSet, cd \in Cooldowns }
  \cup
  { MkRecord(<<>>, 1, p, <<e>>, tt, 1, 0, FALSE) :
      p \in {1, 2}, e \in Exprs, tt \in {0, 1} }

\* plain `aperf record`
PlainRecords ==
  { MkRecord(<<>>, i, p, <<>>, DefaultTriggerTimes, DefaultTriggerCount,
             DefaultCooldown, FALSE) : i \in Intervals, p \in Periods }

\* MonitorArgs of the legacy entry point.
MonitorArgsSet ==
  { [cpu_usage |-> u, period |-> p, interval |-> i, post |-> po, cooldown |-> cd] :
      u \in CpuUsages, p \in Periods, i \in Intervals, po \in Posts,
      cd \in Cooldowns }

VARIABLES
  args,                 \* Option<MonitorArgs>: set when entered through monitor()
  rec,                  \* the Record the current record() call was given
  ret,                  \* where the current record() call returns to
  record,               \* the Record monitor_with_triggers was given
  pc,                   \* position of the single thread
  err,                  \* which step returned Err ("" when none)
  lock,                 \* PERFORMANCE_DATA mutex: "free" or the statement holding it
  perf,                 \* PERFORMANCE_DATA: the InitParams set by set_params
  collect_elapsed,      \* seconds collect_data_serial has run
  threshold,            \* cpu_trigger.threshold
  capacity,             \* capacity
  bufs,                 \* buf_cpu .. buf_sysctl, by kind
  cpu_raw,              \* sample held by cpu_raw (index of the collection)
  prev_cpu,             \* sample held by prev_cpu
  trigger_count,        \* trigger_count
  consecutive_triggers, \* consecutive_triggers
  data,                 \* delta series of the last calculate_cpu_usage
  cpu_pct,              \* cpu_pct of the last tick
  now,                  \* wall clock, seconds since start
  ticks,                \* loop iterations started
  last_fire,            \* wall clock of the last firing, -1 before the first
  pushes,               \* completed ticks since the buffers were last empty by clear
  capture,              \* capture steps completed in the last firing, in order
  run_dirs,             \* run directories created
  dump,                 \* dump files of the last firing, by kind
  rec_period,           \* Option: period the Recorder was last invoked with
  post_moved            \* whether the last rename to <run_dir>/post succeeded

vars == <<args, rec, ret, record, pc, err, lock, perf, collect_elapsed, threshold,
          capacity, bufs, cpu_raw, prev_cpu, trigger_count, consecutive_triggers,
          data, cpu_pct, now, ticks, last_fire, pushes, capture, run_dirs, dump,
          rec_period, post_moved>>

loopVars == <<bufs, cpu_raw, prev_cpu, trigger_count, consecutive_triggers,
              data, cpu_pct, ticks, last_fire, pushes>>
captureVars == <<capture, run_dirs, dump, rec_period, post_moved>>
setupVars == <<threshold, capacity>>
callVars == <<args, rec, ret, record>>

EmptyBufs == [k \in Kinds |-> <<>>]

InitCommon ==
  /\ err = ""
  /\ lock = "free"
  /\ perf = [period |-> 0, interval |-> 0]
  /\ collect_elapsed = 0
  /\ threshold = 0
  /\ capacity = 0
  /\ bufs = EmptyBufs
  /\ cpu_raw = 0
  /\ prev_cpu = 0
  /\ trigger_count = 0
  /\ consecutive_triggers = 0
  /\ data = <<>>
  /\ cpu_pct = 0
  /\ now = 0
  /\ ticks = 0
  /\ last_fire = -1
  /\ pushes = 0
  /\ capture = <<>>
  /\ run_dirs = 0
  /\ dump = EmptyBufs
  /\ rec_period = <<>>
  /\ post_moved = FALSE
  /\ record = DefaultRecord
  /\ ret = "exit"

Init ==
  /\ InitCommon
  /\ \/ /\ args = <<>>
        /\ rec \in TriggerRecords \cup PlainRecords
        /\ pc = "record"
     \/ /\ args \in {<<a>> : a \in MonitorArgsSet}
        /\ rec = DefaultRecord
        /\ pc = "monitor"


\* ------------------------------------------------------------ helpers
\* The `?` operator: continue at `next` on Ok, leave with Err otherwise.
Try(ok, next) == IF ok THEN next ELSE "failed"

ErrOf(target, site) == IF target = "failed" THEN site ELSE err

\* bincode blob of collector k's sample: a kind tag and the sample index.
Blob(k, sample) == <<k, sample>>

\* Variant: eviction starts one entry too late (len > capacity + 1).
SerializeAndBufferLateEvict(buf, blob, cap) ==
  LET pushed == Append(buf, blob)
  IN IF Len(pushed) > cap + 1 THEN Tail(pushed) ELSE pushed

\* Variant: a full buffer drops the entry just pushed (pop_back).
SerializeAndBufferEvictNewest(buf, blob, cap) ==
  LET pushed == Append(buf, blob)
  IN IF Len(pushed) > cap THEN SubSeq(pushed, 1, Len(pushed) - 1) ELSE pushed

\* serialize_and_buffer's push_back / pop_front on one buffer.
SerializeAndBuffer(buf, blob, cap) ==
  LET pushed == Append(buf, blob)
  IN IF Len(pushed) > cap THEN Tail(pushed) ELSE pushed

\* calculate_cpu_usage on the delta series the aggregation returned.
calculate_cpu_usage(series) ==
  FullPercent - (IF series = <<>> THEN 0 ELSE series[Len(series)])

\* Variant: the threshold itself counts as a hit (cpu_pct >= threshold).
ConditionMetNonStrict(pct, thr) == pct >= thr

\* cpu_pct > cpu_trigger.threshold as f32
ConditionMet(pct, thr) == pct > thr

\* Variant: strict comparison (consecutive_triggers > record.trigger_times).
ShouldFireStrict(hits, times) == hits > times

\* consecutive_triggers >= record.trigger_times
ShouldFire(hits, times) == hits >= times

\* trigger_count >= record.trigger_count
ReachedMax(count, max) == count >= max

\* Variant: the sleep after a firing uses the sampling interval.
CooldownSleepsInterval(r) == r.interval

\* thread::sleep(Duration::from_secs(record.cooldown))
CooldownDuration(r) == r.cooldown

\* The period field of the Record handed to run_record.
PostTriggerPeriod(r, a) == r.period

\* Variant: the Record handed to run_record keeps the trigger expression.
PostTriggerMetricsKept(r) == r.trigger_metrics

\* trigger_metrics: None in the Record handed to run_record.
PostTriggerMetrics(r) == <<>>

\* Variant: the wall-clock time is written in front of every blob.
RECURSIVE dump_buffer_with_timestamp(_)
dump_buffer_with_timestamp(buffer) ==
  IF buffer = <<>> THEN <<>>
  ELSE <<now>> \o Head(buffer) \o dump_buffer_with_timestamp(Tail(buffer))

\* dump_buffer_to_file: the blobs written one after the other.
RECURSIVE dump_buffer_to_file(_)
dump_buffer_to_file(buffer) ==
  IF buffer = <<>> THEN <<>>
  ELSE Head(buffer) \o dump_buffer_to_file(Tail(buffer))

\* Variant: only buf_cpu is cleared.
clear_only_cpu(b) == [k \in Kinds |-> IF k = 1 THEN <<>> ELSE b[k]]

\* clear_all_buffers
clear_all_buffers(b) == [k \in Kinds |-> <<>>]

\* Variant: the result of dump_buffers_to_disk is ignored.
AfterDumpIgnoreErr(ok) == "run_record"

\* Variant: the result of fs::rename is propagated with `?`.
AfterMoveFatal(ok) == Try(ok, "clear")

\* Where control goes after each step of the capture sequence.
AfterCreateDir(ok) == Try(ok, "dump")
AfterDump(ok) == Try(ok, "run_record")
AfterRecord(ok) == Try(ok, "move")
AfterMove(ok) == "clear"

\* Statements of the form PERFORMANCE_DATA.lock().unwrap().f(..)
MonLockStmts == {"mon_set_params", "mon_init_collectors", "mon_prepare", "mon_static"}
RecLockStmts == {"rec_set_params", "rec_init_collectors", "rec_prepare",
                 "rec_static", "rec_collect", "rec_end"}
LockStmts == MonLockStmts \cup RecLockStmts

\* ------------------------------------------------------- entry points
\* monitor(): build the Record from MonitorArgs, call monitor_with_triggers.
Monitor ==
  /\ pc = "monitor"
  /\ LET a == args[1]
     IN record' = MkRecord(<<>>, a.interval, a.period,
                           << <<"cpu", ">", FormatF32(a.cpu_usage)>> >>,
                           LegacyTriggerTimes, LegacyTriggerCount, a.cooldown, FALSE)
  /\ pc' = "mon_start"
  /\ UNCHANGED <<args, rec, ret, err, lock, perf, collect_elapsed, now>>
  /\ UNCHANGED <<setupVars, loopVars, captureVars>>

\* record(): dispatch to the monitor when trigger_metrics is set, else
\* validate the parameters of a plain recording.
RecordEntry ==
  /\ pc = "record"
  /\ IF rec.trigger_metrics # <<>>
     THEN /\ record' = rec
          /\ pc' = "mon_start"
          /\ err' = err
     ELSE /\ record' = record
          /\ pc' = Try(rec.period # 0 /\ rec.interval # 0
                         /\ ~(rec.interval >= rec.period), "rec_set_params")
          /\ err' = ErrOf(pc', "record_params")
  /\ UNCHANGED <<args, rec, ret, lock, perf, collect_elapsed, now>>
  /\ UNCHANGED <<setupVars, loopVars, captureVars>>

\* monitor_with_triggers: parse the expression, validate interval/period.
MonStart ==
  /\ pc = "mon_start"
  /\ LET cpu_trigger == parse_cpu_trigger(record.trigger_metrics[1])
     IN IF cpu_trigger = <<>>
        THEN /\ pc' = "failed"
             /\ err' = "parse"
             /\ threshold' = threshold
        ELSE /\ pc' = Try(~(record.interval = 0 \/ record.period = 0), "mon_set_params")
             /\ err' = ErrOf(pc', "monitor_params")
             /\ threshold' = cpu_trigger[1]
  /\ UNCHANGED <<callVars, lock, perf, collect_elapsed, capacity, now>>
  /\ UNCHANGED <<loopVars, captureVars>>

\* ------------------------------------------------ PERFORMANCE_DATA lock
\* PERFORMANCE_DATA.lock().unwrap(): blocks until the mutex is free.
Acquire ==
  /\ pc \in LockStmts
  /\ lock = "free"
  /\ lock' = pc
  /\ UNCHANGED <<callVars, pc, err, perf, collect_elapsed, now>>
  /\ UNCHANGED <<setupVars, loopVars, captureVars>>

\* .set_params(params); the guard is dropped at the end of the statement.
SetParams ==
  /\ pc \in {"mon_set_params", "rec_set_params"}
  /\ lock = pc
  /\ perf' = IF pc = "mon_set_params"
             THEN [period |-> record.period, interval |-> record.interval]
             ELSE [period |-> rec.period, interval |-> rec.interval]
  /\ pc' = IF pc = "mon_set_params" THEN "mon_init_collectors" ELSE "rec_init_collectors"
  /\ lock' = "free"
  /\ UNCHANGED <<callVars, err, collect_elapsed, now>>
  /\ UNCHANGED <<setupVars, loopVars, captureVars>>

\* .init_collectors()?
InitCollectors ==
  /\ pc \in {"mon_init_collectors", "rec_init_collectors"}
  /\ lock = pc
  /\ \E ok \in BOOLEAN :
       /\ pc' = Try(ok, IF pc = "mon_init_collectors" THEN "mon_prepare"
                        ELSE IF ~rec.skip_prep THEN "rec_prepare" ELSE "rec_static")
       /\ err' = ErrOf(pc', pc)
  /\ lock' = "free"
  /\ UNCHANGED <<callVars, perf, collect_elapsed, now>>
  /\ UNCHANGED <<setupVars, loopVars, captureVars>>

\* prepare_data_collectors()?
PrepareDataCollectors ==
  /\ pc \in {"mon_prepare", "rec_prepare"}
  /\ lock = pc
  /\ \E ok \in BOOLEAN :
       /\ pc' = Try(ok, IF pc = "mon_prepare" THEN "mon_static" ELSE "rec_static")
       /\ err' = ErrOf(pc', pc)
  /\ lock' = "free"
  /\ UNCHANGED <<callVars, perf, collect_elapsed, now>>
  /\ UNCHANGED <<setupVars, loopVars, captureVars>>

\* collect_static_data()?
CollectStaticData ==
  /\ pc \in {"mon_static", "rec_static"}
  /\ lock = pc
  /\ \E ok \in BOOLEAN :
       /\ pc' = Try(ok, IF pc = "mon_static" THEN "mon_initial" ELSE "rec_collect")
       /\ err' = ErrOf(pc', pc)
  /\ lock' = "free"
  /\ UNCHANGED <<callVars, perf, collect_elapsed, now>>
  /\ UNCHANGED <<setupVars, loopVars, captureVars>>

\* collect_data_serial() running under the guard taken by
\* start_collection_serial: one collection interval passes.
CollectDataSerialStep ==
  /\ pc = "rec_collect"
  /\ lock = pc
  /\ collect_elapsed < perf.period
  /\ collect_elapsed' = collect_elapsed + perf.interval
  /\ now' = now + perf.interval
  /\ UNCHANGED <<callVars, pc, err, lock, perf>>
  /\ UNCHANGED <<setupVars, loopVars, captureVars>>

\* start_collection_serial()?: collect_data_serial returns, the guard drops.
StartCollectionSerial ==
  /\ pc = "rec_collect"
  /\ lock = pc
  /\ \E ok \in BOOLEAN :
       /\ ok => collect_elapsed >= perf.period
       /\ pc' = Try(ok, "rec_end")
       /\ err' = ErrOf(pc', pc)
  /\ lock' = "free"
  /\ collect_elapsed' = 0
  /\ UNCHANGED <<callVars, perf, now>>
  /\ UNCHANGED <<setupVars, loopVars, captureVars>>

\* PERFORMANCE_DATA.lock().unwrap().end()? and the return of record().
End ==
  /\ pc = "rec_end"
  /\ lock = pc
  /\ \E ok \in BOOLEAN :
       /\ pc' = IF ret = "move" THEN AfterRecord(ok) ELSE Try(ok, "done")
       /\ err' = ErrOf(pc', pc)
       /\ capture' = IF ok /\ ret = "move" THEN Append(capture, "record") ELSE capture
  /\ lock' = "free"
  /\ UNCHANGED <<callVars, perf, collect_elapsed, now>>
  /\ UNCHANGED <<setupVars, loopVars, run_dirs, dump, rec_period, post_moved>>


\* ------------------------------------------------------ monitoring loop
\* Buffers, collectors and the initial collection; prev_cpu, the counters.
\* `fail` is the collector whose collect_data returns Err (0: none).
InitialCollect ==
  /\ pc = "mon_initial"
  /\ capacity' = record.period \div record.interval
  /\ \E fail \in 0..NumCollectors :
       /\ pc' = Try(fail = 0, "loop")
       /\ err' = ErrOf(pc', "collect")
  /\ bufs' = EmptyBufs
  /\ cpu_raw' = 0
  /\ prev_cpu' = 0
  /\ trigger_count' = 0
  /\ consecutive_triggers' = 0
  /\ pushes' = 0
  /\ UNCHANGED <<callVars, lock, perf, collect_elapsed, threshold, now>>
  /\ UNCHANGED <<data, cpu_pct, ticks, last_fire, captureVars>>

\* Variant: the Err of a collector is dropped and the iteration goes on.
CollectFailedIgnored(fail) == FALSE

\* The `?` after each serialize_and_buffer call: collector `fail` returned Err.
CollectFailed(fail) == fail # 0

\* One iteration of the loop up to the firing decision: sleep, the eight
\* serialize_and_buffer calls, calculate_cpu_usage, the hit counter.
\* `fail` is the collector whose serialize_and_buffer returns Err (0: none),
\* `series` what the aggregation returns, `calc_ok` whether
\* calculate_cpu_usage returns Ok.
TickBody(fail, series, calc_ok) ==
  /\ pc = "loop"
  /\ LET sample == ticks + 1
         pct == calculate_cpu_usage(series)
         hit == ConditionMet(pct, threshold)
         hits == IF hit THEN consecutive_triggers + 1 ELSE 0
         fire == hit /\ ShouldFire(hits, record.trigger_times)
     IN /\ bufs' = [k \in Kinds |->
                      IF fail = 0 \/ k < fail
                      THEN SerializeAndBuffer(bufs[k], Blob(k, sample), capacity)
                      ELSE bufs[k]]
        /\ cpu_raw' = IF fail = 1 THEN cpu_raw ELSE sample
        /\ pushes' = IF CollectFailed(fail) THEN pushes ELSE pushes + 1
        /\ IF CollectFailed(fail) \/ ~calc_ok
           THEN /\ pc' = "failed"
                /\ err' = IF fail # 0 THEN "collect" ELSE "calculate"
                /\ UNCHANGED <<data, cpu_pct, consecutive_triggers, trigger_count,
                               prev_cpu, last_fire, capture>>
           ELSE /\ data' = series
                /\ cpu_pct' = pct
                /\ consecutive_triggers' = hits
                /\ err' = err
                /\ IF fire
                   THEN /\ trigger_count' = trigger_count + 1
                        /\ last_fire' = now + record.interval
                        /\ capture' = <<>>
                        /\ pc' = "create_dir"
                        /\ prev_cpu' = prev_cpu
                   ELSE /\ prev_cpu' = cpu_raw'
                        /\ pc' = "loop"
                        /\ UNCHANGED <<trigger_count, last_fire, capture>>
  /\ now' = now + record.interval
  /\ ticks' = ticks + 1
  /\ UNCHANGED <<callVars, lock, perf, collect_elapsed, setupVars>>
  /\ UNCHANGED <<run_dirs, dump, rec_period, post_moved>>

\* The loop iteration with what the collectors and the aggregation return.
Tick ==
  /\ ticks < MaxTicks
  /\ \E fail \in 0..NumCollectors, series \in AggSeries, calc_ok \in BOOLEAN :
       TickBody(fail, series, calc_ok)

\* fs::create_dir_all(&run_dir)?
CreateRunDir ==
  /\ pc = "create_dir"
  /\ \E ok \in BOOLEAN :
       /\ pc' = AfterCreateDir(ok)
       /\ err' = ErrOf(pc', "create_dir")
       /\ run_dirs' = IF ok THEN run_dirs + 1 ELSE run_dirs
       /\ capture' = IF ok THEN Append(capture, "mkdir") ELSE capture
  /\ dump' = EmptyBufs
  /\ UNCHANGED <<callVars, lock, perf, collect_elapsed, setupVars, loopVars, now>>
  /\ UNCHANGED <<rec_period, post_moved>>

\* dump_buffers_to_disk(..)?: one file per kind, in order; `fail` is the
\* kind whose file could not be written (0: none).
DumpBuffersToDisk ==
  /\ pc = "dump"
  /\ \E fail \in 0..NumCollectors :
       /\ dump' = [k \in Kinds |->
                     IF fail = 0 \/ k < fail THEN dump_buffer_to_file(bufs[k])
                     ELSE <<>>]
       /\ pc' = AfterDump(fail = 0)
       /\ err' = ErrOf(pc', "dump")
       /\ capture' = IF fail = 0 THEN Append(capture, "dump") ELSE capture
  /\ UNCHANGED <<callVars, lock, perf, collect_elapsed, setupVars, loopVars, now>>
  /\ UNCHANGED <<run_dirs, rec_period, post_moved>>

\* run_record(&Record { .. }, tmp_dir, runlog): the call into record().
RunRecord ==
  /\ pc = "run_record"
  /\ rec' = MkRecord(<<run_dirs>>, record.interval, PostTriggerPeriod(record, args),
                     PostTriggerMetrics(record), record.trigger_times,
                     record.trigger_count,
                     record.cooldown, TRUE)
  /\ ret' = "move"
  /\ rec_period' = <<rec'.period>>
  /\ pc' = "record"
  /\ UNCHANGED <<args, record, err, lock, perf, collect_elapsed, setupVars, loopVars, now>>
  /\ UNCHANGED <<capture, run_dirs, dump, post_moved>>

\* let _ = fs::rename(&ts, run_dir.join("post"));
MovePost ==
  /\ pc = "move"
  /\ \E ok \in BOOLEAN :
       /\ post_moved' = ok
       /\ pc' = AfterMove(ok)
  /\ capture' = Append(capture, "move")
  /\ UNCHANGED <<callVars, err, lock, perf, collect_elapsed, setupVars, loopVars, now>>
  /\ UNCHANGED <<run_dirs, dump, rec_period>>

\* clear_all_buffers(..); consecutive_triggers = 0; the max-count check.
ClearAndReset ==
  /\ pc = "clear"
  /\ bufs' = clear_all_buffers(bufs)
  /\ consecutive_triggers' = 0
  /\ pushes' = 0
  /\ capture' = Append(capture, "clear")
  /\ pc' = IF ReachedMax(trigger_count, record.trigger_count) THEN "done" ELSE "cooldown"
  /\ UNCHANGED <<callVars, err, lock, perf, collect_elapsed, setupVars, now>>
  /\ UNCHANGED <<cpu_raw, prev_cpu, trigger_count, data, cpu_pct, ticks, last_fire>>
  /\ UNCHANGED <<run_dirs, dump, rec_period, post_moved>>

\* thread::sleep(cooldown); prev_cpu = cpu_raw.clone(); back to the loop top.
CooldownSleep ==
  /\ pc = "cooldown"
  /\ now' = now + CooldownDuration(record)
  /\ prev_cpu' = cpu_raw
  /\ pc' = "loop"
  /\ UNCHANGED <<callVars, err, lock, perf, collect_elapsed, setupVars>>
  /\ UNCHANGED <<bufs, cpu_raw, trigger_count, consecutive_triggers, data, cpu_pct,
                 ticks, last_fire, pushes, captureVars>>

Next ==
  \/ Monitor
  \/ RecordEntry
  \/ MonStart
  \/ Acquire
  \/ SetParams
  \/ InitCollectors
  \/ PrepareDataCollectors
  \/ CollectStaticData
  \/ CollectDataSerialStep
  \/ StartCollectionSerial
  \/ End
  \/ InitialCollect
  \/ Tick
  \/ CreateRunDir
  \/ DumpBuffersToDisk
  \/ RunRecord
  \/ MovePost
  \/ ClearAndReset
  \/ CooldownSleep

Spec == Init /\ [][Next]_vars

\* --------------------------------------------------- end-to-end scenario
\* interval 1, period 5, cooldown 20, "cpu > 80", trigger_times 2, with the
\* busy percents (tenths) the calculator returns on ticks 1, 2, ...
E2EFeed == <<100, 200, 300, 900, 950, 950>>

E2ERecords ==
  { MkRecord(<<>>, 1, 5, <<MainExpr>>, 2, tc, 20, FALSE) : tc \in {1, 2, 10} }

InitE2E ==
  /\ InitCommon
  /\ args = <<>>
  /\ rec \in E2ERecords
  /\ pc = "record"

\* The loop iteration with every collector succeeding and the aggregation
\* returning the scenario's busy percent of this tick.
TickE2E ==
  /\ ticks < Len(E2EFeed)
  /\ TickBody(0, <<FullPercent - E2EFeed[ticks + 1]>>, TRUE)

NextE2E ==
  \/ RecordEntry
  \/ MonStart
  \/ Acquire
  \/ SetParams
  \/ InitCollectors
  \/ PrepareDataCollectors
  \/ CollectStaticData
  \/ CollectDataSerialStep
  \/ StartCollectionSerial
  \/ End
  \/ InitialCollect
  \/ TickE2E
  \/ CreateRunDir
  \/ DumpBuffersToDisk
  \/ RunRecord
  \/ MovePost
  \/ ClearAndReset
  \/ CooldownSleep

SpecE2E == InitE2E /\ [][NextE2E]_vars


\* ======================================================== properties

\* A loop iteration that got as far as the firing decision.
TickDecided == ticks' = ticks + 1 /\ pc' # "failed"

\* The decision was to fire.
Fired == pc' = "create_dir"

\* Deadline set by the previous firing (cooldown_until of the design).
CooldownUntil == IF last_fire = -1 THEN 0 ELSE last_fire + record.cooldown

\* C1 (as stated): a trigger fires on a tick if and only if the consecutive-hit
\* counter stands at exactly trigger_times at that tick and the cooldown
\* deadline has passed, for every trigger_times including 0.
C1_FiresIffExactlyTriggerTimes ==
  [][TickDecided =>
       (Fired <=> (consecutive_triggers' = record.trigger_times
                   /\ now' >= CooldownUntil))]_vars

\* C1 (amended): for trigger_times >= 1 a trigger fires on a tick if and only
\* if the consecutive-hit counter reaches exactly trigger_times on that tick;
\* with trigger_times = 0 it fires exactly as with 1 (on every tick whose
\* condition is true, never on a false one); every tick is past the deadline.
C1_FiresIffCounterReachesRequired ==
  [][TickDecided =>
       /\ Fired <=> (consecutive_triggers' = Max(record.trigger_times, 1))
       /\ now' >= CooldownUntil]_vars

C1_Witness ==
  /\ pc = "create_dir"
  /\ record.trigger_times = 2
  /\ consecutive_triggers = 2
  /\ trigger_count = 2

\* C2: immediately after a firing the consecutive-hit counter is 0, and the
\* next firing comes no sooner than cooldown seconds after the previous one.
C2_ResetAndCooldownAfterFiring ==
  [][/\ (pc = "clear" /\ pc' # "clear") => consecutive_triggers' = 0
     /\ pc' = "cooldown" => consecutive_triggers' = 0
     /\ (TickDecided /\ Fired /\ last_fire # -1)
          => now' >= last_fire + record.cooldown]_vars

C2_Witness ==
  /\ pc = "create_dir"
  /\ trigger_count = 2
  /\ record.cooldown > 0
  /\ now >= record.cooldown

\* C3: with C = floor(period / interval), C = 0 included, no history buffer
\* holds more than C entries once a push has completed.
C3_BufferWithinCapacity ==
  (pc \in {"loop", "create_dir", "dump", "failed", "done", "cooldown"} /\ ticks > 0)
    => /\ capacity = record.period \div record.interval
       /\ \A k \in Kinds : Len(bufs[k]) <= capacity

C3_Witness ==
  /\ pc = "loop"
  /\ capacity = 2
  /\ ticks > capacity
  /\ \A k \in Kinds : Len(bufs[k]) = capacity /\ bufs[k][1] = Blob(k, ticks - 1)

\* C4: on every firing the Recorder is invoked with the separately
\* configured post-trigger period.
C4_RecorderGetsPostPeriod ==
  (args # <<>> /\ rec_period # <<>>) => rec_period[1] = args[1].post

\* C5: the number of firings never exceeds the configured maximum, for
\* every maximum including 0, and never decreases.
C5_FiringsWithinMaximum ==
  [][/\ trigger_count' >= trigger_count
     /\ pc' \in {"create_dir", "dump", "run_record", "move", "clear", "cooldown", "loop"}
          => trigger_count' <= record.trigger_count]_vars

\* The fixed order of the capture steps.
CaptureOrder == <<"mkdir", "dump", "record", "move", "clear">>

\* The monitor ended with Err inside a firing.
CaptureFailed ==
  /\ pc = "failed"
  /\ \/ err \in {"create_dir", "dump"}
     \/ ret = "move" /\ err \in {"record_params"} \cup RecLockStmts

\* State part of C6: what has completed at each position of a firing.
C6_CaptureOrderInv ==
  /\ Len(capture) <= Len(CaptureOrder)
  /\ capture = SubSeq(CaptureOrder, 1, Len(capture))
  /\ pc = "dump" => capture = SubSeq(CaptureOrder, 1, 1)
  /\ pc = "run_record" =>
       /\ capture = SubSeq(CaptureOrder, 1, 2)
       /\ dump = [k \in Kinds |-> dump_buffer_to_file(bufs[k])]
  /\ pc = "move" => capture = SubSeq(CaptureOrder, 1, 3)
  /\ pc = "clear" => capture = SubSeq(CaptureOrder, 1, 4)
  /\ CaptureFailed =>
       /\ Len(capture) < 3
       /\ capacity >= 1 => \A k \in Kinds :
            bufs[k] # <<>> /\ bufs[k][Len(bufs[k])] = Blob(k, ticks)

\* C6: the capture steps run in the order mkdir, dump, record, move, clear;
\* the buffers are cleared only after dump and Recorder succeeded; a failed
\* step ends the monitor with the buffers uncleared and nothing after it.
C6_CaptureOrder ==
  /\ []C6_CaptureOrderInv
  /\ [][/\ (bufs # EmptyBufs /\ bufs' = EmptyBufs)
             => capture = SubSeq(CaptureOrder, 1, 4)
        /\ pc = "failed" => (pc' = "failed" /\ ticks' = ticks
                             /\ trigger_count' = trigger_count /\ bufs' = bufs)]_vars

C6_Witness ==
  /\ CaptureFailed
  /\ err = "rec_collect"
  /\ capture = <<"mkdir", "dump">>
  /\ Len(bufs[1]) = 2

\* C7: a configuration with period <= interval (both non-zero) is rejected
\* before the loop starts: no tick, no run directory, no Recorder call.
C7_PeriodNotAboveIntervalRejected ==
  (record.trigger_metrics # <<>> /\ record.interval # 0 /\ record.period # 0
     /\ record.period <= record.interval)
    => /\ ticks = 0
       /\ bufs = EmptyBufs
       /\ run_dirs = 0
       /\ rec_period = <<>>

\* C8: an empty delta series gives a busy percent of 0, so the tick is not
\* a hit for any threshold.
C8_EmptySeriesIsZeroPercent ==
  (ticks > 0 /\ data = <<>>) => (cpu_pct = 0 /\ ~ConditionMet(cpu_pct, threshold))

\* C9 (as stated): during the cooldown the monitor keeps ticking: whenever
\* time passes in the cooldown, a sample is taken one interval later.
C9_TicksDuringCooldown ==
  [][(pc = "cooldown" /\ now' # now)
       => (ticks' = ticks + 1 /\ now' = now + record.interval)]_vars

\* C9 (amended): the cooldown is one blocking sleep: no sample is taken, the
\* hit counter stays 0 and the buffers stay empty until it ends; the first
\* tick after a firing comes at least cooldown + interval seconds after it.
C9_CooldownBlocksSampling ==
  /\ [](pc = "cooldown" => (bufs = EmptyBufs /\ consecutive_triggers = 0))
  /\ [][/\ pc = "cooldown" =>
             /\ ticks' = ticks
             /\ bufs' = bufs
             /\ consecutive_triggers' = consecutive_triggers
        /\ (ticks' = ticks + 1 /\ last_fire # -1)
             => now' >= last_fire + record.cooldown + record.interval]_vars

C9_Witness ==
  /\ pc = "loop"
  /\ trigger_count = 1
  /\ record.cooldown > 0
  /\ now = last_fire + record.period + record.cooldown + record.interval
  /\ Len(bufs[1]) = 1

\* The lock statements that configure or initialize.
InitStmts == LockStmts \ {"rec_collect"}

\* C10: the PERFORMANCE_DATA lock is held only for configuration and
\* initialization statements, never while the Recorder's serial collection
\* runs, and no acquisition waits on a holder that never releases.
C10_LockOnlyForInit ==
  /\ lock \in {"free"} \cup InitStmts
  /\ pc \in LockStmts => lock \in {"free", pc}

ComparisonOps == {">", "<", ">=", "<=", "==", "!="}
MetricKeywords == {"cpu", "mem"}

\* <metric> <op> <number> at tokens i .. i+2 of e.
IsComparison(e, i) ==
  /\ e[i + 1] \in ComparisonOps
  /\ ParseF64(e[i + 2]) # <<>>
  /\ ParseF64(e[i + 2])[1] >= MinThreshold
  /\ ParseF64(e[i + 2])[1] <= MaxThreshold

\* A comparison on one metric that is not a known keyword.
UnknownMetricExpr(e) ==
  /\ Len(e) = 3
  /\ ToLowercase(e[1]) \notin MetricKeywords
  /\ IsComparison(e, 1)

\* A conjunction of comparisons on known metric keywords.
RECURSIVE InClaimedGrammar(_)
InClaimedGrammar(e) ==
  /\ Len(e) >= 3
  /\ ToLowercase(e[1]) \in MetricKeywords
  /\ IsComparison(e, 1)
  /\ \/ Len(e) = 3
     \/ /\ Len(e) >= 7
        /\ e[4] = "&&"
        /\ InClaimedGrammar(SubSeq(e, 5, Len(e)))

\* The monitor was entered with this expression.
MonitorEntered == pc \notin {"record", "monitor", "mon_start"} /\ record.trigger_metrics # <<>>

\* C12: an expression naming an unrecognized metric is not an error: the
\* monitor starts (no parse failure) and never fires on it.
C12_UnknownMetricIsFalse ==
  (MonitorEntered /\ UnknownMetricExpr(record.trigger_metrics[1]))
    => (err # "parse" /\ trigger_count = 0)

\* C13: every conjunction of comparisons <metric> <op> <number>, with any of
\* the six operators and any letter case of the keywords, is accepted.
C13_GrammarAccepted ==
  (MonitorEntered /\ InClaimedGrammar(record.trigger_metrics[1]))
    => err # "parse"

\* C14: a tick is a hit if and only if the busy percent is strictly greater
\* than the threshold: for "cpu > 80", 81 is a hit, 79.9 is not, and exactly
\* 80 is not a hit and resets the consecutive-hit counter to 0.
C14_HitIffStrictlyGreater ==
  [][TickDecided =>
       /\ IF cpu_pct' > threshold
          THEN consecutive_triggers' = consecutive_triggers + 1
          ELSE consecutive_triggers' = 0
       /\ (threshold = 800 /\ cpu_pct' = 810)
            => consecutive_triggers' = consecutive_triggers + 1
       /\ (threshold = 800 /\ cpu_pct' \in {799, 800})
            => (consecutive_triggers' = 0 /\ ~Fired)]_vars

C14_Witness ==
  /\ pc = "loop"
  /\ threshold = 800
  /\ cpu_pct = 800
  /\ data = <<200>>
  /\ ticks >= 2
  /\ record.trigger_times = 2
  /\ consecutive_triggers = 0

\* The last tick sampled some collectors and not the others.
TickIncomplete ==
  /\ ticks > 0
  /\ \/ cpu_raw # ticks
     \/ \E k \in Kinds :
          /\ bufs[k] # <<>>
          /\ bufs[k][Len(bufs[k])] = Blob(k, ticks)
          /\ \/ bufs[NumCollectors] = <<>>
             \/ bufs[NumCollectors][Len(bufs[NumCollectors])] # Blob(NumCollectors, ticks)

\* C15: a collector failure during a tick is fatal: the loop ends in that
\* tick with no condition evaluation, no firing and no further tick, and the
\* remaining collectors are not sampled.
C15_CollectorFailureFatal ==
  /\ [](TickIncomplete => (pc = "failed" /\ err = "collect"))
  /\ [][/\ (ticks' = ticks + 1 /\ err' = "collect") =>
             /\ pc' = "failed"
             /\ bufs'[NumCollectors] = bufs[NumCollectors]
             /\ UNCHANGED <<consecutive_triggers, trigger_count, cpu_pct, data,
                            last_fire, run_dirs, rec_period>>
        /\ (pc = "failed" /\ err = "collect") =>
             UNCHANGED <<pc, ticks, bufs, trigger_count, consecutive_triggers>>]_vars

C15_Witness ==
  /\ pc = "failed"
  /\ err = "collect"
  /\ ticks = 2
  /\ consecutive_triggers = 1
  /\ Len(bufs[1]) = 2
  /\ Len(bufs[NumCollectors]) = 1

\* The file of kind k holds the bytes of the buffered blobs of kind k, one
\* blob after the other, oldest first, and nothing else.
PayloadIsBufferContent(k) ==
  /\ Len(dump[k]) = Len(Blob(k, 0)) * Len(bufs[k])
  /\ \A i \in 1..Len(bufs[k]) :
       \A j \in 1..Len(Blob(k, 0)) :
         dump[k][Len(Blob(k, 0)) * (i - 1) + j] = bufs[k][i][j]

\* C16: dumping leaves every buffer's contents and order unchanged, and the
\* payload written is a function of the buffer contents alone (the blobs in
\* order, no timestamp), so dumping an unchanged buffer again gives the same
\* bytes.
C16_DumpNonDestructiveDeterministic ==
  /\ [](pc \in {"run_record", "move"} => \A k \in Kinds : PayloadIsBufferContent(k))
  /\ [][pc = "dump" => (bufs' = bufs /\ pushes' = pushes)]_vars

C16_Witness ==
  /\ pc = "run_record"
  /\ now > 0
  /\ Len(bufs[1]) = 2
  /\ dump[NumCollectors] = Blob(NumCollectors, ticks - 1) \o Blob(NumCollectors, ticks)

\* An iteration count as the configuration is said to accept one. Record has
\* no such field and the `loop` of monitor_with_triggers reads none: its only
\* exits are the maximum firing count and an Err.
IterationBound == 3

\* C17: with a bounded iteration count configured the loop ends after that
\* many ticks, whatever the trigger activity, also when nothing ever fires.
C17_LoopEndsAfterIterationBound == ticks <= IterationBound

\* Number of snapshots a buffer holds after `pushes` pushes: min(n, C).
Retained == IF pushes < capacity THEN pushes ELSE capacity

\* The most recent Retained snapshots of kind k, oldest first.
RecentSnapshots(k) == [i \in 1..Retained |-> Blob(k, ticks - Retained + i)]

\* C18: at the end of a tick, with n pushes since the last clear, every
\* buffer holds exactly the most recent min(n, C) snapshots, oldest first,
\* and the dump of a firing writes exactly those snapshots in that order.
C18_StrictFifoContent ==
  /\ err # "collect" => \A k \in Kinds : bufs[k] = RecentSnapshots(k)
  /\ pc = "run_record" =>
       \A k \in Kinds :
         /\ Len(dump[k]) = Len(Blob(k, 0)) * Retained
         /\ \A i \in 1..Retained :
              /\ dump[k][Len(Blob(k, 0)) * (i - 1) + 1] = k
              /\ dump[k][Len(Blob(k, 0)) * i] = ticks - Retained + i

C18_Witness ==
  /\ pc = "run_record"
  /\ capacity = 2
  /\ pushes = 3
  /\ bufs[1] = <<Blob(1, 2), Blob(1, 3)>>
  /\ dump[NumCollectors] = <<NumCollectors, 2, NumCollectors, 3>>

\* C19: the move of the Recorder output into <run_dir>/post is best-effort:
\* when it fails or has nothing to move the firing still completes: every
\* buffer is cleared, the hit counter is reset, the firing is counted, and
\* the loop continues, or exits when the maximum is reached.
C19_MoveIsBestEffort ==
  /\ []((pc \in {"cooldown", "done"} /\ capture = CaptureOrder /\ ~post_moved) =>
          /\ \A k \in Kinds : bufs[k] = <<>>
          /\ consecutive_triggers = 0
          /\ trigger_count = run_dirs
          /\ trigger_count >= 1
          /\ err = ""
          /\ pc = "done" <=> trigger_count >= record.trigger_count)
  /\ [][/\ (pc = "move" /\ ~post_moved') =>
             (pc' = "clear" /\ err' = err /\ trigger_count' = trigger_count)
        /\ (pc = "cooldown" /\ ~post_moved) => (pc' = "loop" /\ err' = err)]_vars

C19_Witness ==
  /\ pc = "cooldown"
  /\ capture = CaptureOrder
  /\ ~post_moved
  /\ trigger_count = 1
  /\ record.trigger_count = 2
  /\ rec_period # <<>>

\* C20: at the end of every tick, for trigger_times >= 1, the hit counter
\* satisfies 0 <= consecutive_triggers < trigger_times: reaching
\* trigger_times fires and resets it within the same tick.
C20_HitCounterBelowRequired ==
  (pc \in {"loop", "cooldown", "done"} /\ record.trigger_times >= 1) =>
    (0 <= consecutive_triggers /\ consecutive_triggers < record.trigger_times)

C20_Witness ==
  /\ pc = "loop"
  /\ record.trigger_times = 2
  /\ consecutive_triggers = 1
  /\ trigger_count = 1
  /\ ticks >= 3

\* C21: at every tick boundary (after the eight serialize_and_buffer calls of
\* a successful tick, and after a firing's clear) the eight history buffers
\* have the same length, and all are empty right after a completed firing.
C21_BuffersSameLength ==
  /\ err # "collect" =>
       \A k \in Kinds : Len(bufs[k]) = Len(bufs[NumCollectors])
  /\ (pc \in {"cooldown", "done"} /\ capture = CaptureOrder) =>
       \A k \in Kinds : bufs[k] = <<>>

C21_Witness ==
  /\ pc = "loop"
  /\ trigger_count = 1
  /\ capture = CaptureOrder
  /\ \A k \in Kinds : Len(bufs[k]) = 2

\* Control is inside the record() call made by a firing.
InPostTriggerRecord == ret = "move" /\ pc \in {"record"} \cup RecLockStmts

\* C22: the Recorder call made by the monitor never re-enters monitoring
\* mode: record() dispatches to monitor_with_triggers only when
\* trigger_metrics is set, the monitor always calls it with trigger_metrics
\* unset, so the call goes through the plain collection only (a collection
\* bounded by the period) and comes back to the firing or fails.
C22_PostRecordNeverReentersMonitor ==
  /\ [](InPostTriggerRecord =>
          /\ rec.trigger_metrics = <<>>
          /\ record.trigger_metrics # <<>>
          /\ capture = <<"mkdir", "dump">>
          /\ (pc = "rec_collect" => collect_elapsed < perf.period + perf.interval))
  /\ [][/\ pc = "record" => (pc' = "mon_start" <=> rec.trigger_metrics # <<>>)
        /\ pc = "run_record" => (pc' = "record" /\ rec'.trigger_metrics = <<>>)
        /\ InPostTriggerRecord =>
             /\ pc' \in RecLockStmts \cup {"move", "failed"}
             /\ UNCHANGED <<record, ticks, trigger_count, consecutive_triggers,
                            bufs, threshold, capacity>>]_vars

C22_Witness ==
  /\ pc = "move"
  /\ ret = "move"
  /\ rec.trigger_metrics = <<>>
  /\ rec.skip_prep
  /\ record.trigger_metrics = <<MainExpr>>
  /\ capture = <<"mkdir", "dump", "record">>
  /\ trigger_count = 2

====
